---- MODULE Spec2Model ----
(***************************************************************************)
(* Model of devspace's configuration resolution:                           *)
(*   - package configutil: the memoized loader (loadConfigOnce, InitConfig,*)
(*     ResetConfig), GetConfigFromPath and the root walk SetDevSpaceRoot;  *)
(*   - cmd.RunCmd.RunRun, the caller of SetDevSpaceRoot.                   *)
(* Goroutines calling the memoized entry points are the processes Procs;   *)
(* the command goroutine running RunRun / SetDevSpaceRoot is the walker.   *)
(***************************************************************************)
EXTENDS Integers, Sequences, FiniteSets, TLC

\* ------------------------------------------------------------------ bounds
NumProcs == 2       \* goroutines calling GetConfig/GetBaseConfig/InitConfig/ResetConfig
MaxEpochs == 1      \* number of ResetConfig calls explored
MaxDepth == 2       \* depth of the deepest starting directory of the walk

Procs == 1..NumProcs

\* ------------------------------------------------------------ value spaces
NoErr == "nil"
Errs == {"LoadErr", "LegacyErr", "NotFoundErr", "ReadErr", "ParseErr",
         "ValidateErr", "SaveErr"}

\* a *latest.Config pointer: <<tag, epoch of construction, profile applied>>
NilModel == <<"nil", 0, "">>
DefaultModel(e) == <<"default", e, "">>
LoadedModel(e, profile) == <<"loaded", e, profile>>

\* profiles a caller can pass, and profiles generated.yaml can carry
ExplicitProfiles == {"", "dev"}
ActiveProfiles == {"", "prod"}

\* which of devspace.yaml / devspace-configs.yaml a directory holds
Kinds == {"none", "primary", "legacy", "both"}
HasPrimary(kind) == kind \in {"primary", "both"}
HasLegacy(kind) == kind \in {"legacy", "both"}

\* path names: a directory is the sequence of its components, <<>> is "/"
NameLen(n) == IF n = "a" THEN 1 ELSE 2
Elsewhere == <<"zz">>     \* a directory that is on no walked path

VARIABLES
    config,             \* var config *latest.Config
    getConfigOnce,      \* sync.Once: TRUE when its done flag is set
    getConfigOnceErr,   \* var getConfigOnceErr error
    getConfigOnceMutex, \* sync.Mutex: 0 when free, else the holder
    pc,                 \* position of each goroutine
    op,                 \* the entry point each goroutine is in
    ret,                \* the latest return: the entry point and what it returned
    later,              \* a resolve call returned after the first of this epoch
    run,                \* locals and outcome of the epoch's pipeline run
    epoch,              \* number of ResetConfig calls so far
    runs,               \* pipeline executions started in this epoch
    initRan,            \* InitConfig's initialiser ran in this epoch
    ioLog,              \* generated-state / config I/O of this epoch, in order
    firstRet,           \* what the first resolve call of the epoch returned
    start,              \* deepest directory of the file system chain
    markers,            \* markers[i]: files in the ancestor of start at depth i
    home,               \* homedir.Dir()
    cwd,                \* the process's working directory
    w,                  \* the goroutine running RunRun / SetDevSpaceRoot
    v,                  \* a call of validate: its argument and its result
    h                   \* a helm deployment client: its deployment, the cache

vars == <<config, getConfigOnce, getConfigOnceErr, getConfigOnceMutex, pc, op,
          ret, later, run, epoch, runs, initRan, ioLog, firstRet,
          start, markers, home, cwd, w, v, h>>

memoVars == <<config, getConfigOnce, getConfigOnceErr, getConfigOnceMutex>>
procVars == <<pc, op>>
ghostVars == <<ret, later, run, epoch, runs, initRan, ioLog, firstRet>>
fsVars == <<start, markers, home>>
toolVars == <<v, h>>

\* ------------------------------------------------------------ file system
KindAt(dir) == markers[Len(dir)]

\* the directories: "/", "/a", "/a/bb", "/a/bb/a", ... down to depth MaxDepth
Deepest == [i \in 1..MaxDepth |-> IF i % 2 = 1 THEN "a" ELSE "bb"]
Dirs == {SubSeq(Deepest, 1, i) : i \in 0..MaxDepth}
Prefix(dir, i) == SubSeq(dir, 1, i)
Ancestors(dir) == {Prefix(dir, i) : i \in 0..Len(dir)}

\* len(cwd) of the path string: "/" for the root, "/a/bb" below it
RECURSIVE StrLen(_)
StrLen(dir) == IF dir = <<>> THEN 1
               ELSE IF Len(dir) = 1 THEN 1 + NameLen(dir[1])
               ELSE StrLen(Prefix(dir, Len(dir) - 1)) + 1 + NameLen(dir[Len(dir)])

\* filepath.Dir: the parent directory, the root being its own parent
Dir(dir) == IF dir = <<>> THEN <<>> ELSE Prefix(dir, Len(dir) - 1)

\* configExistsInPath: a memoized config, devspace.yaml or devspace-configs.yaml
ConfigExistsInPath(cfg, kind) ==
    IF cfg # NilModel THEN TRUE
    ELSE IF HasPrimary(kind) THEN TRUE
    ELSE IF HasLegacy(kind) THEN TRUE
    ELSE FALSE

\* SetDevSpaceRoot: the loop condition "len(cwd) != lastLength"
WalkContinuesWhileNonEmpty(dir, lastLength) == StrLen(dir) # 0
WalkContinues(dir, lastLength) == StrLen(dir) # lastLength

\* SetDevSpaceRoot: "if cwd != homedir"
ChecksDirAlways(dir, homedir) == TRUE
ChecksDir(dir, homedir) == dir # homedir

\* -------------------------------------------------------------- helpers
NoRet == [op |-> "none", pair |-> <<NilModel, NoErr>>]
Return(o, model, err) == [op |-> o, pair |-> <<model, err>>]

\* the *ConfigOptions values a caller can pass: nil, or a struct with a Profile
OptionValues == {[isNil |-> TRUE, Profile |-> ""]} \cup
                {[isNil |-> FALSE, Profile |-> x] : x \in ExplicitProfiles}

\* the pipeline closure's variables (options, allowProfile, generatedConfig)
\* and what the run produced: model from GetConfigFromPath, the error it set
NoRun == [stage |-> "none", allow |-> FALSE, isNil |-> FALSE, explicit |-> "",
          active |-> "", handed |-> "", kind |-> "none", cfgErr |-> NoErr,
          model |-> NilModel, err |-> NoErr]

\* the closure's variables are gone when loadConfigOnce returns
AfterReturn(r) == [NoRun EXCEPT !.stage = r.stage, !.kind = r.kind,
                                !.cfgErr = r.cfgErr, !.model = r.model,
                                !.err = r.err]

IsResolve(o) == o \in {"GetConfig", "GetBaseConfig"}

\* ResetConfig calls that have been entered and have not reset the once yet
PendingResets == {q \in Procs : op[q] = "ResetConfig" /\ pc[q] \in {"lock", "locked"}}

\* defer getConfigOnceMutex.Unlock(): the mutex after its holder returned
DeferredUnlockMissing(holder) == holder
DeferredUnlock(holder) == 0

\* sync.Once.Do runs its function iff the done flag is not set
OnceNeedsRunAlways(done) == TRUE
OnceNeedsRun(done) == ~done

\* loadConfigOnce, "Check if we should load a specific config"
SelectProfileIgnoreAllow(allowProfile, active, explicit) ==
    IF active # "" /\ explicit = "" THEN active ELSE explicit
SelectProfile(allowProfile, active, explicit) ==
    IF allowProfile /\ active # "" /\ explicit = "" THEN active
    ELSE IF ~allowProfile THEN ""
    ELSE explicit

\* loadConfigOnce after GetConfigFromPath: "if err != nil { ...; return }",
\* otherwise on to generated.SaveConfig
AfterConfigAlwaysSave(outcome) == "save"
AfterConfig(outcome) == IF outcome = NoErr THEN "save" ELSE "exit"

\* GetConfigFromPath, the two os.Stat calls
StatErrorLegacyFirst(kind) ==
    IF HasLegacy(kind) THEN "LegacyErr"
    ELSE IF ~HasPrimary(kind) THEN "NotFoundErr"
    ELSE NoErr
StatError(kind) ==
    IF ~HasPrimary(kind)
    THEN IF HasLegacy(kind) THEN "LegacyErr" ELSE "NotFoundErr"
    ELSE NoErr

\* ------------------------------------------------- validate: its argument
\* a nil slice and an empty one both iterate zero times in validate's loops,
\* so each section of the config is a sequence; where validate compares a
\* field with nil, the field keeps the three cases "nil", "empty", "set"
MaxItems == 2
Refs == {"nil", "empty", "set"}
SeqsUpTo(S, n) == UNION {[1..k -> S] : k \in 0..n}

\* YAML documents of helm values: top-level key to value. The key "bogus" is
\* no field of latest.ComponentConfig
Keys == {"replicas", "bogus"}
Vals == {1, 3}
Docs == UNION {[K -> Vals] : K \in SUBSET Keys}
EmptyDoc == [k \in {} |-> 0]

\* one entry of valuesFiles, by what resolving and reading the path gives
ValueFiles ==
    {[status |-> st, doc |-> EmptyDoc] : st \in {"abserr", "unreadable"}}
    \cup {[status |-> "ok", doc |-> d] : d \in Docs}

\* latest.PortForwardingConfig, latest.SyncConfig, latest.DeploymentConfig
PortSpecs == [ImageName : {"", "app"}, LabelSelector : Refs, PortMappings : Refs]
SyncSpecs == [ImageName : {"", "app"}, LabelSelector : Refs]
NoHelm == [isNil |-> TRUE, Chart |-> "nil", ComponentChart |-> "nil",
           ValuesFiles |-> <<>>, Values |-> EmptyDoc]
\* Chart: "nil" for a nil Chart, else Chart.Name
PlainHelm == {[isNil |-> FALSE, Chart |-> c, ComponentChart |-> cc,
               ValuesFiles |-> <<>>, Values |-> EmptyDoc] :
                  c \in {"nil", "", "redis"}, cc \in {"nil", "false", "true"}}
\* Kubectl: "nil" for a nil Kubectl, else the state of Kubectl.Manifests
KubectlSpecs == {"nil", "manifests-nil", "manifests-empty", "manifests-set"}
Deployment(name, helm, kubectl) == [Name |-> name, Helm |-> helm, Kubectl |-> kubectl]

EmptyCfg == [ports |-> <<>>, sync |-> <<>>, interactive |-> <<>>, commands |-> <<>>,
             hooks |-> <<>>, images |-> <<>>, deployments |-> <<>>]

\* configs with up to n entries in dev.ports and nothing else
PortInputs(n) == {[EmptyCfg EXCEPT !.ports = s] : s \in SeqsUpTo(PortSpecs, n)}
\* configs with deployments only: up to n deployments of every combination of
\* kinds, or one deployment of every combination of chart and componentChart
KindHelm == {NoHelm} \cup {hl \in PlainHelm : \/ hl.Chart = "redis" /\ hl.ComponentChart = "nil"
                                              \/ hl.Chart = "nil" /\ hl.ComponentChart = "true"}
DeployInputs(n) ==
    {[EmptyCfg EXCEPT !.deployments = s] :
        s \in SeqsUpTo({Deployment("app", hl, k) : hl \in KindHelm, k \in KubectlSpecs}, n)}
    \cup {[EmptyCfg EXCEPT !.deployments = <<Deployment("app", hl, k)>>] :
             hl \in PlainHelm, k \in KubectlSpecs}
\* one component-chart deployment with up to n value files and inline values
ValuesInputs(n) ==
    {[EmptyCfg EXCEPT !.deployments =
         <<Deployment("app", [isNil |-> FALSE, Chart |-> "nil", ComponentChart |-> "true",
                              ValuesFiles |-> fs, Values |-> vals], "nil")>>] :
        fs \in SeqsUpTo(ValueFiles, n), vals \in Docs}
\* one entry in one of the other sections, in front of a deployment that
\* validate rejects when it gets to it
NoKind == Deployment("app", NoHelm, "nil")
OtherInputs ==
    {[EmptyCfg EXCEPT !.sync = <<x>>, !.deployments = <<NoKind>>] : x \in SyncSpecs}
    \cup {[EmptyCfg EXCEPT !.interactive = <<[Name |-> n]>>, !.deployments = <<NoKind>>] :
             n \in {"", "app"}}
    \cup {[EmptyCfg EXCEPT !.commands = <<[Name |-> n, Command |-> c]>>,
                           !.deployments = <<NoKind>>] :
             n \in {"", "up"}, c \in {"", "make"}}
    \cup {[EmptyCfg EXCEPT !.hooks = <<[Command |-> c]>>, !.deployments = <<NoKind>>] :
             c \in {"", "make"}}
    \cup {[EmptyCfg EXCEPT !.images = <<[Image |-> i, Custom |-> c]>>,
                           !.deployments = <<NoKind>>] :
             i \in {"", "repo/app"}, c \in {"nil", "", "make"}}
    \cup {[EmptyCfg EXCEPT !.deployments = <<Deployment(n, NoHelm, "manifests-set")>>] :
             n \in {"", "app"}}
ValidateInputs(n) == PortInputs(n) \cup DeployInputs(n) \cup ValuesInputs(n) \cup OtherInputs

\* ---------------------------------------------------- validate: the code
\* a validation error: the rule that failed and the Go index of the entry
NoValidationErr == [rule |-> "nil", index |-> 0]
ValidationErr(rule, i) == [rule |-> rule, index |-> i - 1]

\* merge.Values(dst).MergeInto(src): keys of src replace those of dst
MergeInto(dst, src) ==
    [k \in DOMAIN dst \cup DOMAIN src |-> IF k \in DOMAIN src THEN src[k] ELSE dst[k]]

\* the loop over ValuesFiles: a file that ReadYamlFromFile cannot read is
\* skipped, the others are merged in list order
RECURSIVE MergeFiles(_, _)
MergeFiles(acc, files) ==
    IF files = <<>> THEN acc
    ELSE MergeFiles(IF Head(files).status = "ok" THEN MergeInto(acc, Head(files).doc)
                    ELSE acc,
                    Tail(files))

\* overwriteValues as validate builds it: the files, then Helm.Values
OverrideValuesInlineFirst(files, inline) == MergeFiles(MergeInto(EmptyDoc, inline), files)
OverrideValues(files, inline) == MergeInto(MergeFiles(EmptyDoc, files), inline)

\* yaml.UnmarshalStrict into latest.ComponentConfig refuses unknown fields
StrictDecodeOK(doc) == "bogus" \notin DOMAIN doc

\* filepath.Abs failed for one of the value files
AbsFails(files) == \E i \in DOMAIN files : files[i].status = "abserr"

PortErr(port) ==
    IF port.ImageName = "" /\ port.LabelSelector = "nil" THEN "dev.ports.target"
    ELSE IF port.PortMappings = "nil" THEN "dev.ports.portMappings"
    ELSE "nil"
SyncErr(sync) ==
    IF sync.ImageName = "" /\ sync.LabelSelector = "nil" THEN "dev.sync.target" ELSE "nil"
InteractiveErr(image) == IF image.Name = "" THEN "dev.interactive.images.name" ELSE "nil"
CommandErr(command) ==
    IF command.Name = "" THEN "commands.name"
    ELSE IF command.Command = "" THEN "commands.command"
    ELSE "nil"
HookErr(hookConfig) == IF hookConfig.Command = "" THEN "hooks.command" ELSE "nil"
ImageErr(imageConf) ==
    IF imageConf.Image = "" THEN "images.image"
    ELSE IF imageConf.Custom = "" THEN "images.build.custom.command"
    ELSE "nil"

IsComponentChart(deployConfig) ==
    ~deployConfig.Helm.isNil /\ deployConfig.Helm.ComponentChart = "true"

DeploymentErr(deployConfig) ==
    IF deployConfig.Name = "" THEN "deployments.name"
    ELSE IF deployConfig.Helm.isNil /\ deployConfig.Kubectl = "nil"
    THEN "deployments.kind"
    ELSE IF /\ ~deployConfig.Helm.isNil
            /\ deployConfig.Helm.Chart \in {"nil", ""}
            /\ deployConfig.Helm.ComponentChart \in {"nil", "false"}
    THEN "deployments.helm.chart"
    ELSE IF deployConfig.Kubectl = "manifests-nil"
    THEN "deployments.kubectl.manifests"
    ELSE IF IsComponentChart(deployConfig)
    THEN IF AbsFails(deployConfig.Helm.ValuesFiles) THEN "deployments.helm.valuesFiles"
         ELSE IF ~StrictDecodeOK(OverrideValues(deployConfig.Helm.ValuesFiles,
                                                deployConfig.Helm.Values))
         THEN "deployments.helm.componentChart"
         ELSE "nil"
    ELSE "nil"

\* a loop of validate over one section, given the rule each entry fails
\* ("nil" for none): the error of the first entry that fails one
Min(S) == CHOOSE x \in S : \A y \in S : x <= y
SectionErr(failed) ==
    LET bad == {i \in DOMAIN failed : failed[i] # "nil"}
    IN  IF bad = {} THEN NoValidationErr
        ELSE ValidationErr(failed[Min(bad)], Min(bad))

RECURSIVE FirstErr(_)
FirstErr(errs) ==
    IF errs = <<>> THEN NoValidationErr
    ELSE IF Head(errs) # NoValidationErr THEN Head(errs)
    ELSE FirstErr(Tail(errs))

validate(cfg) ==
    FirstErr(<<
        SectionErr([i \in DOMAIN cfg.ports |-> PortErr(cfg.ports[i])]),
        SectionErr([i \in DOMAIN cfg.sync |-> SyncErr(cfg.sync[i])]),
        SectionErr([i \in DOMAIN cfg.interactive |-> InteractiveErr(cfg.interactive[i])]),
        SectionErr([i \in DOMAIN cfg.commands |-> CommandErr(cfg.commands[i])]),
        SectionErr([i \in DOMAIN cfg.hooks |-> HookErr(cfg.hooks[i])]),
        SectionErr([i \in DOMAIN cfg.images |-> ImageErr(cfg.images[i])]),
        SectionErr([i \in DOMAIN cfg.deployments |-> DeploymentErr(cfg.deployments[i])])>>)

\* the override document validate built for deployment i, if it got there
OverrideBuilt(cfg, i) ==
    LET d == cfg.deployments[i]
    IN  /\ \A j \in 1..(i - 1) : DeploymentErr(cfg.deployments[j]) = "nil"
        /\ validate([cfg EXCEPT !.deployments = <<>>]) = NoValidationErr
        /\ IsComponentChart(d)
        /\ DeploymentErr(d) \in {"nil", "deployments.helm.componentChart"}
NoOverride == [built |-> FALSE, doc |-> EmptyDoc]
Overrides(cfg) ==
    [i \in DOMAIN cfg.deployments |->
        IF OverrideBuilt(cfg, i)
        THEN [built |-> TRUE,
              doc |-> OverrideValues(cfg.deployments[i].Helm.ValuesFiles,
                                     cfg.deployments[i].Helm.Values)]
        ELSE NoOverride]

NoValidation == [pc |-> "idle", cfg |-> EmptyCfg, err |-> NoValidationErr,
                 overrides |-> <<>>]

\* ------------------------------------------------- helm deployment client
\* var DevSpaceChartConfig = &latest.ChartConfig{Name: "component-chart", ...}
DevSpaceChartConfig == "component-chart"
KubeNamespace == "default"          \* kubeClient.Namespace

\* helm deployments that validate accepts: Chart is "nil" for a nil Chart,
\* else Chart.Name
HelmDeployments ==
    {[Name |-> n, Chart |-> c, ComponentChart |-> cc, TillerNamespace |-> t] :
        n \in {"app", "redis"}, c \in {"nil", "redis"},
        cc \in {"nil", "false", "true"}, t \in {"", "tiller"}}
ValidHelmDeployments == {d \in HelmDeployments : d.Chart # "nil" \/ d.ComponentChart = "true"}
NoDeployment == [Name |-> "", Chart |-> "nil", ComponentChart |-> "nil",
                 TillerNamespace |-> ""]

\* generated.CacheConfig.Deployments: key to cached deployment metadata
CacheKeys == {"app", "redis", DevSpaceChartConfig}
CacheEntries == {"old", "new"}
Caches == UNION {[K -> CacheEntries] : K \in SUBSET CacheKeys}

\* delete(m, key)
MapDelete(m, key) == [k \in DOMAIN m \ {key} |-> m[k]]

\* the *latest.DeploymentConfig New is given and what it was when handed over,
\* the DeployConfig struct d, the cache, and of the latest Delete: the cache
\* it was given, what it returned and how far it got
NoClient == [pc |-> "idle", deployConfig |-> NoDeployment, given |-> NoDeployment,
             d |-> [Helm |-> FALSE, TillerNamespace |-> ""],
             cache |-> EmptyDoc, before |-> EmptyDoc, err |-> NoErr, got |-> "none"]

\* New: the chart of a component-chart deployment is exchanged in place
ExchangeChart(deployConfig) ==
    IF deployConfig.ComponentChart = "true"
    THEN [deployConfig EXCEPT !.Chart = DevSpaceChartConfig]
    ELSE deployConfig

\* Delete: the cache key that is removed after the release was deleted
DeletedKey(deployConfig) == deployConfig.Chart

\* ------------------------------------------------------------------- Init
InitMemo ==
    /\ config = NilModel
    /\ getConfigOnce = FALSE
    /\ getConfigOnceErr = NoErr
    /\ getConfigOnceMutex = 0
    /\ pc = [p \in Procs |-> "idle"]
    /\ op = [p \in Procs |-> "none"]
    /\ ret = NoRet
    /\ later = FALSE
    /\ run = NoRun
    /\ epoch = 0
    /\ runs = 0
    /\ initRan = FALSE
    /\ ioLog = <<>>
    /\ firstRet = NoRet

\* the walker: SetDevSpaceRoot's cwd, lastLength, originalCwd, its result
\* (found, err), whether log.Infof was called, whether a check saw a memoized
\* config, the depth at which the walk stopped, and RunRun's result: the error
\* it returned with its ExitCode, the error of the step that failed with its
\* exit status, whether the generated state was saved and the command run;
\* where the critical section of the memoization mutex stood when
\* configExistsInPath last read config, and ConfigExists' latest answer
IdleWalker == [pc |-> "idle", cwd |-> <<>>, lastLength |-> 0, originalCwd |-> <<>>,
               found |-> FALSE, err |-> NoErr, note |-> FALSE, sawConfig |-> FALSE,
               stop |-> -1, runErr |-> "none", code |-> 0, cause |-> "none",
               status |-> 0, saved |-> FALSE, executed |-> FALSE,
               readAt |-> "none", exists |-> FALSE]

InitWalker == w = IdleWalker

\* nothing is being validated or deployed
InitTools == v = NoValidation /\ h = NoClient

\* the resolver's view: the process sits in one directory
Init ==
    /\ InitMemo
    /\ InitWalker
    /\ InitTools
    /\ start = <<>>
    /\ markers \in [0..0 -> Kinds]
    /\ home = Elsewhere
    /\ cwd = start

\* ------------------------------------------------------ memoized loader
\* a caller enters GetConfig / GetBaseConfig
CallResolve(p) ==
    /\ pc[p] = "idle"
    /\ \E o \in {"GetConfig", "GetBaseConfig"} : op' = [op EXCEPT ![p] = o]
    /\ pc' = [pc EXCEPT ![p] = "lock"]
    /\ UNCHANGED <<memoVars, ghostVars, fsVars, toolVars, cwd, w>>

CallInitConfig(p) ==
    /\ pc[p] = "idle"
    /\ op' = [op EXCEPT ![p] = "InitConfig"]
    /\ pc' = [pc EXCEPT ![p] = "lock"]
    /\ UNCHANGED <<memoVars, ghostVars, fsVars, toolVars, cwd, w>>

CallResetConfig(p) ==
    /\ pc[p] = "idle"
    /\ epoch + Cardinality(PendingResets) < MaxEpochs
    /\ op' = [op EXCEPT ![p] = "ResetConfig"]
    /\ pc' = [pc EXCEPT ![p] = "lock"]
    /\ UNCHANGED <<memoVars, ghostVars, fsVars, toolVars, cwd, w>>

\* getConfigOnceMutex.Lock()
Lock(p) ==
    /\ pc[p] = "lock"
    /\ getConfigOnceMutex = 0
    /\ getConfigOnceMutex' = p
    /\ pc' = [pc EXCEPT ![p] = "locked"]
    /\ UNCHANGED <<config, getConfigOnce, getConfigOnceErr, op,
                   ghostVars, fsVars, toolVars, cwd, w>>

\* ResetConfig: getConfigOnce = sync.Once{}, then the deferred Unlock
ResetConfig(p) ==
    /\ pc[p] = "locked"
    /\ op[p] = "ResetConfig"
    /\ getConfigOnce' = FALSE
    /\ getConfigOnceMutex' = DeferredUnlock(p)
    /\ pc' = [pc EXCEPT ![p] = "idle"]
    /\ op' = [op EXCEPT ![p] = "none"]
    /\ ret' = Return("ResetConfig", NilModel, NoErr)
    /\ later' = FALSE
    /\ epoch' = epoch + 1
    /\ runs' = 0
    /\ initRan' = FALSE
    /\ ioLog' = <<>>
    /\ firstRet' = NoRet
    /\ run' = NoRun
    /\ UNCHANGED <<config, getConfigOnceErr, fsVars, toolVars, cwd, w>>

\* InitConfig: getConfigOnce.Do(config = latest.New()); return config
InitConfig(p) ==
    /\ pc[p] = "locked"
    /\ op[p] = "InitConfig"
    /\ IF OnceNeedsRun(getConfigOnce)
       THEN /\ config' = DefaultModel(epoch)
            /\ getConfigOnce' = TRUE
            /\ initRan' = TRUE
       ELSE UNCHANGED <<config, getConfigOnce, initRan>>
    /\ ret' = Return("InitConfig", config', NoErr)
    /\ getConfigOnceMutex' = DeferredUnlock(p)
    /\ pc' = [pc EXCEPT ![p] = "idle"]
    /\ op' = [op EXCEPT ![p] = "none"]
    /\ UNCHANGED <<getConfigOnceErr, later, run, epoch, runs, ioLog,
                   firstRet, fsVars, toolVars, cwd, w>>

\* loadConfigOnce: getConfigOnce.Do enters the pipeline function with the
\* caller's options; "if options == nil { options = &ConfigOptions{} }"
EnterPipeline(p) ==
    /\ pc[p] = "locked"
    /\ IsResolve(op[p])
    /\ OnceNeedsRun(getConfigOnce)
    /\ pc' = [pc EXCEPT ![p] = "load"]
    /\ runs' = runs + 1
    /\ \E opt \in OptionValues :
          run' = [NoRun EXCEPT !.stage = "started",
                               !.allow = (op[p] = "GetConfig"),
                               !.isNil = opt.isNil,
                               !.explicit = opt.Profile]
    /\ UNCHANGED <<memoVars, op, ret, later, epoch, initRan, ioLog, firstRet,
                   fsVars, toolVars, cwd, w>>

\* generated.LoadConfig(options.Profile)
LoadGenerated(p) ==
    /\ pc[p] = "load"
    /\ ioLog' = Append(ioLog, "load")
    /\ \/ /\ getConfigOnceErr' = "LoadErr"
          /\ getConfigOnce' = TRUE
          /\ pc' = [pc EXCEPT ![p] = "exit"]
          /\ run' = [run EXCEPT !.stage = "failed", !.err = "LoadErr"]
       \/ /\ \E active \in ActiveProfiles :
                run' = [run EXCEPT !.stage = "loaded", !.active = active]
          /\ pc' = [pc EXCEPT ![p] = "config"]
          /\ UNCHANGED <<getConfigOnceErr, getConfigOnce>>
    /\ UNCHANGED <<config, getConfigOnceMutex, op, ret, later, epoch, runs,
                   initRan, firstRet, fsVars, toolVars, cwd, w>>

\* profile selection, then config, err = GetConfigFromPath(generatedConfig, ".", ...)
LoadConfigFromPath(p) ==
    /\ pc[p] = "config"
    /\ LET profile == SelectProfile(run.allow, run.active, run.explicit)
           kind == KindAt(cwd)
           statErr == StatError(kind)
       IN /\ ioLog' = Append(ioLog, "config")
          /\ \E outcome \in IF statErr # NoErr THEN {statErr}
                            ELSE {NoErr, "ReadErr", "ParseErr", "ValidateErr"} :
                IF outcome = NoErr
                THEN /\ config' = LoadedModel(epoch, profile)
                     /\ pc' = [pc EXCEPT ![p] = AfterConfig(outcome)]
                     /\ run' = [run EXCEPT !.stage = "configured", !.handed = profile,
                                           !.kind = kind, !.model = config']
                     /\ UNCHANGED <<getConfigOnceErr, getConfigOnce>>
                ELSE /\ config' = NilModel
                     /\ getConfigOnceErr' = outcome
                     /\ getConfigOnce' = (AfterConfig(outcome) = "exit")
                     /\ pc' = [pc EXCEPT ![p] = AfterConfig(outcome)]
                     /\ run' = [run EXCEPT !.stage = "failed", !.handed = profile,
                                           !.kind = kind, !.cfgErr = outcome,
                                           !.model = NilModel, !.err = outcome]
    /\ UNCHANGED <<getConfigOnceMutex, op, ret, later, epoch, runs, initRan,
                   firstRet, fsVars, toolVars, cwd, w>>

\* generated.SaveConfig(generatedConfig), the last step of the pipeline
SaveGenerated(p) ==
    /\ pc[p] = "save"
    /\ ioLog' = Append(ioLog, "save")
    /\ getConfigOnce' = TRUE
    /\ pc' = [pc EXCEPT ![p] = "exit"]
    /\ \/ /\ getConfigOnceErr' = "SaveErr"
          /\ run' = [run EXCEPT !.stage = "savefailed", !.err = "SaveErr"]
       \/ /\ UNCHANGED getConfigOnceErr
          /\ run' = [run EXCEPT !.stage = "saved"]
    /\ UNCHANGED <<config, getConfigOnceMutex, op, ret, later, epoch, runs,
                   initRan, firstRet, fsVars, toolVars, cwd, w>>

\* loadConfigOnce: return config, getConfigOnceErr (and the deferred Unlock),
\* after the pipeline or straight away when the once is already done
ReturnConfig(p) ==
    /\ IsResolve(op[p])
    /\ \/ pc[p] = "exit"
       \/ pc[p] = "locked" /\ ~OnceNeedsRun(getConfigOnce)
    /\ ret' = Return(op[p], config, getConfigOnceErr)
    /\ later' = (firstRet # NoRet)
    /\ firstRet' = IF firstRet = NoRet THEN ret' ELSE firstRet
    /\ run' = AfterReturn(run)
    /\ getConfigOnceMutex' = DeferredUnlock(p)
    /\ pc' = [pc EXCEPT ![p] = "idle"]
    /\ op' = [op EXCEPT ![p] = "none"]
    /\ UNCHANGED <<config, getConfigOnce, getConfigOnceErr,
                   epoch, runs, initRan, ioLog, fsVars, toolVars, cwd, w>>

Next ==
    \E p \in Procs :
        \/ CallResolve(p)
        \/ CallInitConfig(p)
        \/ CallResetConfig(p)
        \/ Lock(p)
        \/ ResetConfig(p)
        \/ InitConfig(p)
        \/ EnterPipeline(p)
        \/ LoadGenerated(p)
        \/ LoadConfigFromPath(p)
        \/ SaveGenerated(p)
        \/ ReturnConfig(p)

Spec == Init /\ [][Next]_vars

\* two goroutines call the entry points concurrently, again and again
Callers == {1, 2}
NextCalls ==
    \E p \in Callers :
        \/ CallResolve(p)
        \/ CallInitConfig(p)
        \/ CallResetConfig(p)
        \/ Lock(p)
        \/ ResetConfig(p)
        \/ InitConfig(p)
        \/ EnterPipeline(p)
        \/ LoadGenerated(p)
        \/ LoadConfigFromPath(p)
        \/ SaveGenerated(p)
        \/ ReturnConfig(p)

\* a goroutine inside an entry point keeps running, the steps of the pipeline
\* terminate, and a goroutine blocked in Lock gets the mutex when it is freed
\* again and again (sync.Mutex hands a starving waiter the lock)
FairSpec ==
    /\ Init /\ [][NextCalls]_vars
    /\ \A p \in Callers :
          /\ SF_vars(Lock(p))
          /\ WF_vars(ResetConfig(p) \/ InitConfig(p) \/ EnterPipeline(p)
                        \/ LoadGenerated(p) \/ LoadConfigFromPath(p)
                        \/ SaveGenerated(p) \/ ReturnConfig(p))

\* ----------------------------------------------- SetDevSpaceRoot and RunRun
\* the root walk's view: a chain of directories from "/" down to start, each
\* holding none, one or both of the config files; home is one of them or not
InitRoot ==
    /\ InitMemo
    /\ InitWalker
    /\ InitTools
    /\ start \in Dirs
    /\ markers \in [0..Len(start) -> Kinds]
    /\ home \in Ancestors(start) \cup {Elsewhere}
    /\ cwd = start

\* RunRun calls SetDevSpaceRoot: os.Getwd() and homedir.Dir()
StartSetDevSpaceRoot ==
    /\ w.pc \in {"idle", "done"}
    /\ \/ \E e \in {"GetwdErr", "HomeErr"} :
             w' = [IdleWalker EXCEPT !.pc = "returned", !.err = e]
       \/ w' = [IdleWalker EXCEPT !.pc = "walk", !.cwd = cwd, !.originalCwd = cwd]
    /\ UNCHANGED <<memoVars, procVars, ghostVars, fsVars, toolVars, cwd>>

\* the critical section of getConfigOnceMutex: free, or where its holder is
CriticalSection == IF getConfigOnceMutex = 0 THEN "free" ELSE pc[getConfigOnceMutex]

\* configExistsInPath takes no lock before it reads config
ReadConfigAt(called, before) == IF called THEN CriticalSection ELSE before

\* one iteration of the loop of SetDevSpaceRoot, or its exit
WalkStep ==
    /\ w.pc = "walk"
    /\ IF WalkContinues(w.cwd, w.lastLength)
       THEN IF ChecksDir(w.cwd, home) /\ ConfigExistsInPath(config, KindAt(w.cwd))
            THEN \/ /\ cwd' = w.cwd                                \* os.Chdir(cwd)
                    /\ w' = [w EXCEPT !.pc = "returned", !.found = TRUE,
                                      !.note = (w.originalCwd # w.cwd),
                                      !.stop = Len(w.cwd),
                                      !.sawConfig = (config # NilModel),
                                      !.readAt = ReadConfigAt(TRUE, w.readAt)]
                 \/ /\ w' = [w EXCEPT !.pc = "returned", !.err = "ChdirErr",
                                      !.sawConfig = (config # NilModel),
                                      !.readAt = ReadConfigAt(TRUE, w.readAt)]
                    /\ UNCHANGED cwd
            ELSE /\ w' = [w EXCEPT !.lastLength = StrLen(w.cwd), !.cwd = Dir(w.cwd),
                                   !.readAt = ReadConfigAt(ChecksDir(w.cwd, home),
                                                           w.readAt)]
                 /\ UNCHANGED cwd
       ELSE /\ w' = [w EXCEPT !.pc = "returned"]
            /\ UNCHANGED cwd
    /\ UNCHANGED <<memoVars, procVars, ghostVars, fsVars, toolVars>>

\* RunRun after SetDevSpaceRoot: the error checks, ioutil.ReadFile of
\* devspace.yaml in the working directory, and the rest of the command
\* what command.ExecuteCommand can fail with: an exit status of the shell
\* interpreter, or any other error
ExitCodes == {1, 255}
ExitStatuses == {"ShellExitStatus", "ExitStatus"}
ExecFailures ==
    {[kind |-> k, status |-> n] : k \in ExitStatuses, n \in ExitCodes}
    \cup {[kind |-> "ExecErr", status |-> 0]}

\* the error RunRun returns for a failure of command.ExecuteCommand
ExecErrorShellOnly(e) ==
    IF e.kind = "ShellExitStatus"
    THEN [err |-> "ReturnCodeError", code |-> e.status]
    ELSE [err |-> "execute command: ExecErr", code |-> 0]
ExecError(e) ==
    IF e.kind \in ExitStatuses
    THEN [err |-> "ReturnCodeError", code |-> e.status]
    ELSE [err |-> "execute command: ExecErr", code |-> 0]

\* RunRun returning err at a step before the command is executed
Returns(err, cause, saved) ==
    [runErr |-> err, code |-> 0, cause |-> cause, status |-> 0,
     saved |-> saved, executed |-> FALSE]

RunRunOutcomes ==
    IF w.err # NoErr THEN {Returns(w.err, w.err, FALSE)}
    ELSE IF ~w.found THEN {Returns("NoConfigErr", "none", FALSE)}
    ELSE IF ~HasPrimary(KindAt(cwd)) THEN {Returns("ReadErr", "ReadErr", FALSE)}
    ELSE {Returns(e, e, FALSE) :
             e \in {"ReadErr", "ParseErr", "LoadErr", "ParseCommandsErr", "SaveErr"}}
         \cup {[runErr |-> ExecError(e).err, code |-> ExecError(e).code,
                 cause |-> e.kind, status |-> e.status,
                 saved |-> TRUE, executed |-> TRUE] : e \in ExecFailures}
         \cup {[runErr |-> NoErr, code |-> 0, cause |-> "none", status |-> 0,
                 saved |-> TRUE, executed |-> TRUE]}

RunRun ==
    /\ w.pc = "returned"
    /\ \E o \in RunRunOutcomes :
          w' = [w EXCEPT !.pc = "done", !.runErr = o.runErr, !.code = o.code,
                         !.cause = o.cause, !.status = o.status,
                         !.saved = o.saved, !.executed = o.executed]
    /\ UNCHANGED <<memoVars, procVars, ghostVars, fsVars, toolVars, cwd>>

\* the goroutine that memoizes a config while the command goroutine walks
Initializers == {1}

NextRoot ==
    \/ StartSetDevSpaceRoot
    \/ WalkStep
    \/ RunRun
    \/ \E p \in Initializers :
          \/ CallInitConfig(p)
          \/ Lock(p)
          \/ InitConfig(p)

SpecRoot == InitRoot /\ [][NextRoot]_vars

\* the command goroutine keeps running: the loop is not starved
FairSpecRoot == SpecRoot /\ WF_vars(WalkStep)

\* ------------------------------------- the loader and the unlocked readers
\* func ConfigExists() bool: configExistsInPath(".")
ConfigExists ==
    /\ w.pc = "idle"
    /\ w' = [w EXCEPT !.exists = ConfigExistsInPath(config, KindAt(cwd)),
                      !.readAt = ReadConfigAt(TRUE, w.readAt)]
    /\ UNCHANGED <<memoVars, procVars, ghostVars, fsVars, toolVars, cwd>>

\* one goroutine calls the loader's entry points while another calls
\* ConfigExists and SetDevSpaceRoot
NextRace ==
    \/ ConfigExists
    \/ StartSetDevSpaceRoot
    \/ WalkStep
    \/ \E p \in Initializers :
          \/ CallResolve(p)
          \/ CallInitConfig(p)
          \/ CallResetConfig(p)
          \/ Lock(p)
          \/ ResetConfig(p)
          \/ InitConfig(p)
          \/ EnterPipeline(p)
          \/ LoadGenerated(p)
          \/ LoadConfigFromPath(p)
          \/ SaveGenerated(p)
          \/ ReturnConfig(p)

SpecRace == Init /\ [][NextRace]_vars

\* ------------------------------------------------------- validate, alone
\* validate is handed a decoded config
InitValidate ==
    /\ InitMemo
    /\ InitWalker
    /\ h = NoClient
    /\ start = <<>>
    /\ markers = [i \in 0..0 |-> "primary"]
    /\ home = Elsewhere
    /\ cwd = start
    /\ \E cfg \in ValidateInputs(MaxItems) :
          v = [pc |-> "called", cfg |-> cfg, err |-> NoValidationErr, overrides |-> <<>>]

\* func validate(config *latest.Config) error
Validate ==
    /\ v.pc = "called"
    /\ v' = [v EXCEPT !.pc = "returned",
                      !.err = validate(v.cfg),
                      !.overrides = Overrides(v.cfg)]
    /\ UNCHANGED <<memoVars, procVars, ghostVars, fsVars, cwd, w, h>>

NextValidate == Validate

SpecValidate == InitValidate /\ [][NextValidate]_vars

\* ------------------------------------------------ helm deployment client
\* a deployment of the resolved model is about to be handed to New
InitHelm ==
    /\ InitMemo
    /\ InitWalker
    /\ v = NoValidation
    /\ start = <<>>
    /\ markers = [i \in 0..0 |-> "primary"]
    /\ home = Elsewhere
    /\ cwd = start
    /\ \E dc \in ValidHelmDeployments, cache \in Caches :
          h = [NoClient EXCEPT !.pc = "config", !.deployConfig = dc, !.given = dc,
                               !.cache = cache, !.before = cache]

\* func New(config, kubeClient, deployConfig, log) (*DeployConfig, error)
New ==
    /\ h.pc = "config"
    /\ h' = [h EXCEPT !.pc = "created",
                      !.deployConfig = ExchangeChart(h.deployConfig),
                      !.d = [Helm |-> FALSE,
                             TillerNamespace |->
                                IF h.deployConfig.TillerNamespace # ""
                                THEN h.deployConfig.TillerNamespace
                                ELSE KubeNamespace]]
    /\ UNCHANGED <<memoVars, procVars, ghostVars, fsVars, cwd, w, v>>

\* func (d *DeployConfig) Delete(cache *generated.CacheConfig) error
\* isDeployed, clientErr, releaseErr: what helm.IsTillerDeployed,
\* helm.NewClient and d.Helm.DeleteRelease answer
Delete ==
    /\ h.pc \in {"created", "deleted"}
    /\ \E isDeployed, clientErr, releaseErr \in BOOLEAN :
          h' = IF ~isDeployed
               THEN [h EXCEPT !.pc = "deleted", !.before = h.cache,
                              !.err = NoErr, !.got = "no tiller"]
               ELSE IF ~h.d.Helm /\ clientErr
               THEN [h EXCEPT !.pc = "deleted", !.before = h.cache,
                              !.err = "new helm client: ClientErr",
                              !.got = "no client"]
               ELSE IF releaseErr
               THEN [h EXCEPT !.pc = "deleted", !.before = h.cache,
                              !.d = [h.d EXCEPT !.Helm = TRUE],
                              !.err = "ReleaseErr", !.got = "not released"]
               ELSE [h EXCEPT !.pc = "deleted", !.before = h.cache,
                              !.d = [h.d EXCEPT !.Helm = TRUE],
                              !.cache = MapDelete(h.cache, DeletedKey(h.deployConfig)),
                              !.err = NoErr, !.got = "released"]
    /\ UNCHANGED <<memoVars, procVars, ghostVars, fsVars, cwd, w, v>>

NextHelm == New \/ Delete

SpecHelm == InitHelm /\ [][NextHelm]_vars

\* ----------------------------------------------------------- properties
InPipeline == {p \in Procs : pc[p] \in {"load", "config", "save", "exit"}}
Count(e) == Cardinality({i \in DOMAIN ioLog : ioLog[i] = e})
IsPrefix(s, t) == Len(s) <= Len(t) /\ \A i \in DOMAIN s : s[i] = t[i]

\* the latest return is that of a resolve call (of the current epoch: the
\* return of ResetConfig replaces it)
ResolveReturned == IsResolve(ret.op)

C2_ResetClearsCachedResult ==
    (ResolveReturned /\ runs = 1) => ret.pair = <<run.model, run.err>>

\* C3: once a resolve call of the epoch has returned, every later resolve call
\* of the epoch returns the same (model, error) pair straight from the cache,
\* whichever entry point it uses, and no generated-state load, config read or
\* generated-state save happens until the next reset.
C3_LaterCallsReturnCached ==
    [][ /\ (firstRet # NoRet /\ epoch' = epoch) =>
              /\ ioLog' = ioLog
              /\ config' = config
              /\ getConfigOnceErr' = getConfigOnceErr
              /\ InPipeline' = {}
        /\ \A p \in Procs :
              (firstRet # NoRet /\ IsResolve(op[p]) /\ pc[p] # "idle" /\ pc'[p] = "idle")
                 => (pc[p] = "locked" /\ ret'.pair = firstRet.pair) ]_vars

C3_Witness ==
    /\ firstRet.op = "GetBaseConfig"
    /\ firstRet.pair[1] = LoadedModel(epoch, "")
    /\ later
    /\ ret.op = "GetConfig"
    /\ ret.pair = firstRet.pair

\* C4 (as claimed): a resolve call that returns a non-nil error returns a nil
\* model with it.
C4_ErrorImpliesNilModel ==
    (ResolveReturned /\ ret.pair[2] # NoErr) => ret.pair[1] = NilModel

\* C5: within an epoch the generated state is loaded before the config is read
\* and saved only after GetConfigFromPath succeeded; when the load or
\* GetConfigFromPath failed, SaveConfig is not invoked in that epoch.
C5_LoadReadSaveOrder ==
    /\ IsPrefix(ioLog, <<"load", "config", "save">>)
    /\ Count("save") > 0 => (run.cfgErr = NoErr /\ run.stage \in {"saved", "savefailed"})
    /\ run.stage = "failed" => Count("save") = 0
    /\ run.cfgErr # NoErr => Count("save") = 0

C5_Witness ==
    /\ run.stage = "failed"
    /\ run.cfgErr = "ValidateErr"
    /\ ioLog = <<"load", "config">>
    /\ ResolveReturned

\* C6: the profile handed to GetConfigFromPath is the caller's profile when
\* overlays are allowed and it is non-empty, the generated ActiveProfile when
\* overlays are allowed, no profile was given and ActiveProfile is non-empty,
\* and empty whenever overlays are not allowed.
ProfileHanded == \E p \in Procs : pc[p] \in {"save", "exit"} /\ Count("config") = 1
C6_ProfileSelection ==
    ProfileHanded =>
        /\ (run.allow /\ run.explicit # "") => run.handed = run.explicit
        /\ (run.allow /\ run.explicit = "" /\ run.active # "") => run.handed = run.active
        /\ ~run.allow => run.handed = ""
        /\ run.stage \in {"configured", "saved", "savefailed"}
              => config = LoadedModel(epoch, run.handed)

C6_Witness ==
    /\ ProfileHanded
    /\ ~run.allow /\ run.explicit = "dev" /\ run.active = "prod"
    /\ run.handed = ""
    /\ run.stage = "configured"

\* C8: GetConfigFromPath yields the unsupported-legacy-format error when only
\* devspace-configs.yaml exists, the not-found error when neither file exists,
\* and neither of the two when devspace.yaml exists; the error is what every
\* resolve call of the epoch returns.
C8_MarkerClassification ==
    Count("config") = 1 =>
        /\ (~HasPrimary(run.kind) /\ HasLegacy(run.kind)) => run.cfgErr = "LegacyErr"
        /\ (~HasPrimary(run.kind) /\ ~HasLegacy(run.kind)) => run.cfgErr = "NotFoundErr"
        /\ HasPrimary(run.kind) => run.cfgErr \notin {"LegacyErr", "NotFoundErr"}
        /\ (run.cfgErr # NoErr /\ ResolveReturned) => ret.pair = <<NilModel, run.cfgErr>>

C8_Witness ==
    /\ run.kind = "legacy"
    /\ later
    /\ ResolveReturned
    /\ ret.pair[2] = "LegacyErr"

\* ------------------------------------------- properties of the root walk
EnvErrs == {"GetwdErr", "HomeErr", "ChdirErr"}
SetDevSpaceRootReturned == w.pc \in {"returned", "done"}

\* SetDevSpaceRoot returned and neither os.Getwd, homedir.Dir nor os.Chdir failed
Walked == SetDevSpaceRootReturned /\ w.err \notin EnvErrs

\* depths of the directories on the way up from dir that hold a marker and
\* are not the home directory
Candidates(dir) == {i \in 0..Len(dir) : Prefix(dir, i) # home /\ KindAt(Prefix(dir, i)) # "none"}
Max(S) == CHOOSE x \in S : \A y \in S : y <= x

\* C7 (as claimed): when the walk stops at a directory that holds only
\* devspace-configs.yaml, SetDevSpaceRoot reports the unsupported-legacy-format
\* error instead of found=true, and RunRun fails with that error.
C7_LegacyOnlyIsReported ==
    (SetDevSpaceRootReturned /\ w.stop >= 0 /\ KindAt(Prefix(w.originalCwd, w.stop)) = "legacy")
        => /\ w.err = "LegacyErr"
           /\ ~w.found
           /\ w.pc = "done" => w.runErr = "LegacyErr"

\* C9: with no model memoized, SetDevSpaceRoot selects the nearest directory
\* among the start directory and its ancestors that holds a marker and is not
\* the home directory, changes the working directory to it, returns found=true
\* and logs the note iff the selected directory is not the start directory.
C9_NearestMarkerSelected ==
    (Walked /\ ~w.sawConfig /\ Candidates(w.originalCwd) # {}) =>
        LET sel == Prefix(w.originalCwd, Max(Candidates(w.originalCwd)))
        IN /\ w.found
           /\ w.err = NoErr
           /\ cwd = sel
           /\ w.stop = Len(sel)
           /\ w.note = (sel # w.originalCwd)

C9_Witness ==
    /\ Walked /\ ~w.sawConfig /\ w.found
    /\ Len(w.originalCwd) = 2
    /\ home = Prefix(w.originalCwd, 1)
    /\ KindAt(home) = "primary"
    /\ KindAt(w.originalCwd) = "none"
    /\ cwd = <<>>
    /\ w.note

\* C10 (as claimed): whenever no directory on the way up that is not the home
\* directory holds a marker, the walk returns found=false with no error, the
\* working directory unchanged and no note logged.
C10_NoMarkerNotFound ==
    (Walked /\ Candidates(w.originalCwd) = {}) =>
        /\ ~w.found
        /\ w.err = NoErr
        /\ cwd = w.originalCwd
        /\ ~w.note

\* C10 (amended): the walk always terminates; with no model memoized and no
\* marker in any directory on the way up other than the home directory, it
\* stops at the root, where the parent equals the candidate, and returns
\* found=false with no error, the working directory unchanged, no note logged.
C10_WalkEnds ==
    (Walked /\ ~w.sawConfig /\ Candidates(w.originalCwd) = {}) =>
        /\ ~w.found
        /\ w.err = NoErr
        /\ cwd = w.originalCwd
        /\ ~w.note
        /\ w.cwd = <<>> /\ Dir(w.cwd) = w.cwd
        /\ w.lastLength = StrLen(w.cwd)
C10_WalkTerminates ==
    /\ []C10_WalkEnds
    /\ (w.pc = "walk") ~> (w.pc = "returned")

C10_Witness ==
    /\ Walked /\ ~w.found /\ config = NilModel
    /\ Len(w.originalCwd) = 2
    /\ home = w.originalCwd
    /\ KindAt(home) = "both"
    /\ cwd = w.originalCwd
    /\ w.cwd = <<>>


\* ------------------------------------------------ properties of validate
Validated == v.pc = "returned"
Accepted == Validated /\ v.err = NoValidationErr
Rejected == Validated /\ v.err # NoValidationErr
HasHelm(d) == ~d.Helm.isNil
HasKubectl(d) == d.Kubectl # "nil"

\* C11 (as claimed): validate rejects every deployment that does not have
\* exactly one kind: a config with a deployment that has neither helm nor
\* kubectl is rejected, and so is a config with a deployment that has both.
C11_ExactlyOneKindRequired ==
    (/\ Validated
     /\ \E i \in DOMAIN v.cfg.deployments :
           HasHelm(v.cfg.deployments[i]) <=> HasKubectl(v.cfg.deployments[i]))
    => Rejected

\* C12 (as claimed): validate rejects a port-forwarding entry without a target
\* (image name empty and label selector absent or empty) and one without a
\* port mapping (the list absent or present but empty).
C12_PortNeedsTargetAndMapping ==
    (/\ Validated
     /\ \E i \in DOMAIN v.cfg.ports :
           \/ /\ v.cfg.ports[i].ImageName = ""
              /\ v.cfg.ports[i].LabelSelector \in {"nil", "empty"}
           \/ v.cfg.ports[i].PortMappings \in {"nil", "empty"})
    => Rejected

\* C13 (as claimed): validate rejects a chart deployment that has neither a
\* non-empty chart name nor componentChart = true, rejects a manifest
\* deployment whose manifest list is absent or present but empty, and accepts a
\* chart deployment as soon as one of the two alternatives holds.
ChartNamed(d) == d.Helm.Chart \notin {"nil", ""}
C13_ChartOrManifestsRequired ==
    Validated =>
       /\ \A i \in DOMAIN v.cfg.deployments :
             LET d == v.cfg.deployments[i]
             IN  /\ (HasHelm(d) /\ ~ChartNamed(d) /\ d.Helm.ComponentChart # "true")
                       => Rejected
                 /\ d.Kubectl \in {"manifests-nil", "manifests-empty"} => Rejected
       /\ (/\ v.cfg = [EmptyCfg EXCEPT !.deployments = v.cfg.deployments]
           /\ Len(v.cfg.deployments) = 1
           /\ v.cfg.deployments[1].Name # ""
           /\ v.cfg.deployments[1].Helm.ValuesFiles = <<>>
           /\ v.cfg.deployments[1].Helm.Values = EmptyDoc
           /\ HasHelm(v.cfg.deployments[1]) /\ ~HasKubectl(v.cfg.deployments[1])
           /\ \/ ChartNamed(v.cfg.deployments[1])
              \/ v.cfg.deployments[1].Helm.ComponentChart = "true")
          => Accepted

\* C14: the override document validate builds for a component-chart deployment
\* has exactly the top-level keys of the inline values and of the readable
\* value files; a key's value is the inline one when the inline values define
\* the key, else that of the last readable file in valuesFiles order defining
\* it; an unreadable file contributes nothing, and validation fails for that
\* deployment only when the document does not decode.
C14_OverrideMergeOrder ==
    Validated =>
       \A i \in DOMAIN v.overrides :
          v.overrides[i].built =>
             LET files == v.cfg.deployments[i].Helm.ValuesFiles
                 inline == v.cfg.deployments[i].Helm.Values
                 doc == v.overrides[i].doc
                 Defining(k) == {j \in DOMAIN files :
                                   files[j].status = "ok" /\ k \in DOMAIN files[j].doc}
             IN  /\ \A k \in Keys :
                       /\ k \in DOMAIN doc <=> (k \in DOMAIN inline \/ Defining(k) # {})
                       /\ k \in DOMAIN inline => doc[k] = inline[k]
                       /\ (k \notin DOMAIN inline /\ Defining(k) # {})
                             => doc[k] = files[Max(Defining(k))].doc[k]
                 /\ "bogus" \notin DOMAIN doc
                       => (v.err.rule = "nil" \/ v.err.index > i - 1)

C14_Witness ==
    /\ Accepted
    /\ Len(v.cfg.deployments) = 1
    /\ v.overrides[1].built
    /\ LET files == v.cfg.deployments[1].Helm.ValuesFiles
       IN  /\ Len(files) = 2
           /\ files[1].status = "ok" /\ files[1].doc = [k \in {"replicas"} |-> 1]
           /\ files[2].status = "unreadable"
    /\ v.cfg.deployments[1].Helm.Values = [k \in {"replicas"} |-> 3]
    /\ v.overrides[1].doc = [k \in {"replicas"} |-> 3]


\* ----------------------------------------- properties of the helm client
\* C15 (as claimed): constructing a helm deployment client with New leaves
\* the deployment it was given, in particular its chart, as it was in the
\* resolved model, also for a deployment with componentChart = true.
C15_NewLeavesDeploymentUnchanged ==
    h.pc # "idle" => h.deployConfig = h.given

\* C20 (as claimed): Delete leaves cache.Deployments as it was unless the
\* release was deleted; after a successful deletion the cache has no entry
\* under the deployment's name (the release name) and every other entry is as
\* before.
C20_DeleteRemovesOwnEntryOnly ==
    h.pc = "deleted" =>
       /\ h.got # "released" => h.cache = h.before
       /\ h.got = "released" => h.cache = MapDelete(h.before, h.deployConfig.Name)


\* ------------------------------------------------- properties of RunRun
\* C16 (as claimed): the only error translation of RunRun is the extraction
\* of a shell exit status N into a return-code error with ExitCode N; every
\* other failure, that of command execution included, is returned unchanged;
\* the command is executed only after the root was found and the generated
\* state was saved.
C16_OnlyExitCodeTranslated ==
    w.pc = "done" =>
       /\ w.cause \in ExitStatuses => (w.runErr = "ReturnCodeError" /\ w.code = w.status)
       /\ w.cause \notin ExitStatuses \cup {"none"} => w.runErr = w.cause
       /\ w.runErr = "ReturnCodeError" => w.cause \in ExitStatuses
       /\ w.executed => (w.found /\ w.err = NoErr /\ w.saved)

\* C16 (amended): an exit status N of command execution is returned as a
\* return-code error with ExitCode N; any other failure of command execution
\* is returned wrapped with the context "execute command"; the failure of
\* every earlier step (root lookup, file read, parse, generated-state load and
\* save, command parsing) is returned unchanged; the command is executed only
\* after the root was found and the generated state was saved.
C16_ExitCodeExtractedExecErrorWrapped ==
    w.pc = "done" =>
       /\ w.cause \in ExitStatuses => (w.runErr = "ReturnCodeError" /\ w.code = w.status)
       /\ w.cause = "ExecErr" => (w.runErr = "execute command: ExecErr" /\ w.executed)
       /\ w.cause \notin ExitStatuses \cup {"none", "ExecErr"}
             => (w.runErr = w.cause /\ ~w.executed)
       /\ w.runErr = "ReturnCodeError" => w.cause \in ExitStatuses
       /\ w.executed => (w.found /\ w.err = NoErr /\ w.saved)

C16_Witness ==
    /\ w.pc = "done"
    /\ w.found /\ w.stop = 0 /\ Len(w.originalCwd) = MaxDepth
    /\ w.cause = "ExitStatus" /\ w.status = 255
    /\ w.runErr = "ReturnCodeError" /\ w.code = 255
    /\ w.saved /\ w.executed


\* ------------------------------------- properties of the access to config
\* C17 (as claimed): every access to config is made under the memoization
\* mutex, so no goroutine reads config while another one is inside the
\* critical section, where InitConfig and the pipeline assign it: the reads of
\* configExistsInPath (called by ConfigExists and SetDevSpaceRoot) never fall
\* between the Lock and the Unlock of another goroutine.
C17_ConfigAccessUnderMutex ==
    w.readAt \notin {"locked", "load", "config", "save", "exit"}


\* ------------------------------------ properties of the shared once-guard
Initialised == runs + (IF initRan THEN 1 ELSE 0)

\* C18 (as claimed): InitConfig and the resolve entry points share one
\* once-guard. In an epoch at most one initialiser runs, and exactly one has
\* run once a call of the epoch has returned. When it was InitConfig's, nothing
\* is loaded, read or saved in the epoch and every resolve call returns the
\* default model InitConfig constructed; when it was the pipeline, InitConfig
\* returns what the pipeline resolved (nil after a failed resolution) and
\* constructs nothing.
C18_SharedOnceGuard ==
    /\ Initialised <= 1
    /\ ret.op \in {"GetConfig", "GetBaseConfig", "InitConfig"} => Initialised = 1
    /\ initRan => /\ ioLog = <<>>
                  /\ ret.op \in {"GetConfig", "GetBaseConfig", "InitConfig"}
                        => ret.pair[1] = DefaultModel(epoch)
    /\ (ret.op = "InitConfig" /\ runs = 1) => ret.pair[1] = run.model


\* --------------------------------------------- properties of termination
AllIdle == \A p \in Procs : pc[p] = "idle"

\* C19: under fair scheduling every call of GetConfig, GetBaseConfig,
\* InitConfig and ResetConfig eventually returns, whatever the pipeline's
\* outcome, and the mutex is free whenever no call is in progress.
C19_CallsReturnMutexFreed ==
    /\ [](AllIdle => getConfigOnceMutex = 0)
    /\ \A p \in Procs : (pc[p] # "idle") ~> (pc[p] = "idle")

C19_Witness ==
    /\ AllIdle
    /\ getConfigOnceMutex = 0
    /\ epoch >= 1
    /\ ret.op = "GetBaseConfig" /\ ret.pair[2] = "SaveErr"
    /\ later
    /\ run.stage = "savefailed"

TypeOK ==
    /\ getConfigOnce \in BOOLEAN
    /\ getConfigOnceErr \in Errs \cup {NoErr}
    /\ getConfigOnceMutex \in Procs \cup {0}
    /\ epoch \in 0..MaxEpochs
====
